---- MODULE Spec2Model ----
(***************************************************************************)
(* The analysis-and-decision pipeline of the emotion dialogue system:      *)
(*   ContextAnalyzer.analyze -> EmotionAnalyzer.analyze ->                 *)
(*   DecisionMaker.make_decision                                           *)
(* with the session state the three objects keep between requests          *)
(* (current_emotion, emotion_history, command_history).                    *)
(*                                                                         *)
(* Chinese string literals of the source are written in pinyin:            *)
(*   commands  guolai "come here", zhuanshen "turn round", kuaipao "run",  *)
(*             tingxia "stop", tiaowu "dance", ...                         *)
(*   emotions  gaoxing HAPPY, nanguo SAD, fennu ANGRY, jingya SURPRISED,   *)
(*             haipa SCARED, pingjing CALM, xingfen EXCITED, wuliao BORED, *)
(*             youshan FRIENDLY, haixiu SHY                                *)
(*   shengqi   the string "angry" that the emotion gate and the config    *)
(*             tables use; it is not the value of EmotionType.ANGRY        *)
(* Floating point scores are kept exact as scaled integers: a context      *)
(* score in tenths, an emotion score in 1/600, a safety score in 1/60, a   *)
(* confidence in 1/24000, a voice parameter in 1/24000000.                 *)
(***************************************************************************)
EXTENDS Integers, Sequences, FiniteSets, TLC

VARIABLES
    config,            \* config/config.json as the three constructors read it
    current_emotion,   \* EmotionAnalyzer.current_emotion
    emotion_history,   \* EmotionAnalyzer.emotion_history
    command_history,   \* DecisionMaker.command_history
    pc,                \* position of the request in flight
    context,           \* result of ContextAnalyzer.analyze for the request
    emotion,           \* result of EmotionAnalyzer.analyze for the request
    command_results,   \* make_decision's list of per-candidate results
    decision,          \* result of DecisionMaker.make_decision
    prev_emotion,      \* current_emotion before the request's analyze call
    prev_commands,     \* command_history before the request's make_decision
    emotion_raised,    \* whether the request's EmotionAnalyzer.analyze raised
    turns,             \* number of requests decided so far
    decided_log,       \* command decided on each of the last turns ("none")
    streak,            \* run of identical single-command turns from the start
    returned,          \* emotion types EmotionAnalyzer.analyze has returned
    race,              \* two make_decision calls running on one DecisionMaker
    retry              \* one OllamaService._retry_request call

vars == << config, current_emotion, emotion_history, command_history, pc,
           context, emotion, command_results, decision, prev_emotion,
           prev_commands, emotion_raised, turns, decided_log, streak,
           returned, race, retry >>

-----------------------------------------------------------------------------
(* Bounds of the model *)

MaxTurns == 1
MaxSessionTurns == 6
MaxVerbs == 2
MaxParticles == 1

-----------------------------------------------------------------------------
(* Program constants *)

history_size == 5
max_history_size == 10
RecentWindow == 3
RepeatLimit == 2
NumRejectTemplates == 5
NumResponseTemplates == 3

\* scales of the exact arithmetic
CtxOne == 5 + 5
ScoreOne == 6 * 100
SafetyOne == 6 * 10
ConfOne == 40 * ScoreOne
ParamOne == ConfOne * 1000

Min(a, b) == IF a <= b THEN a ELSE b
Max(a, b) == IF a >= b THEN a ELSE b

RECURSIVE SeqMax(_)
SeqMax(s) == IF Len(s) = 1 THEN s[1] ELSE Max(s[1], SeqMax(Tail(s)))

Range(s) == { s[i] : i \in DOMAIN s }
Count(s, x) == Cardinality({ i \in DOMAIN s : s[i] = x })
LastN(s, n) == IF Len(s) <= n THEN s ELSE SubSeq(s, Len(s) - n + 1, Len(s))
\* the subsequence of s whose elements satisfy membership in S, in order
RECURSIVE Filter(_, _)
Filter(s, S) ==
    IF s = << >> THEN << >>
    ELSE IF s[1] \in S THEN << s[1] >> \o Filter(Tail(s), S)
    ELSE Filter(Tail(s), S)

-----------------------------------------------------------------------------
(* config/commands.py *)

\* CommandType, in declaration order (the order get_command_by_keywords
\* iterates the enum in)
CommandType ==
    << "guolai", "zhuanshen", "zainizuobian", "zainiyoubian", "kuaipao",
       "tingxia", "genzhewo", "houtui", "xiangqian", "tiaowu" >>

Commands == Range(CommandType)

COMMAND_PARAMS ==
    [ guolai       |-> [ action |-> "move_to_target", safety_check |-> TRUE,
                         keywords |-> { "guolai", "laizheli", "daozher" } ],
      zhuanshen    |-> [ action |-> "rotate", safety_check |-> FALSE,
                         keywords |-> { "zhuanshen", "zhuanguoqu", "zhuanguolai" } ],
      zainizuobian |-> [ action |-> "move_left", safety_check |-> TRUE,
                         keywords |-> { "zuobian", "xiangzuo", "zuomian" } ],
      zainiyoubian |-> [ action |-> "move_right", safety_check |-> TRUE,
                         keywords |-> { "youbian", "xiangyou", "youmian" } ],
      kuaipao      |-> [ action |-> "run", safety_check |-> TRUE,
                         keywords |-> { "kuaipao", "paoqilai", "jiasu" } ],
      tingxia      |-> [ action |-> "stop", safety_check |-> FALSE,
                         keywords |-> { "tingxia", "tingzhi", "biedong" } ],
      genzhewo     |-> [ action |-> "follow_target", safety_check |-> TRUE,
                         keywords |-> { "genzhewo", "genwolai", "genshang" } ],
      houtui       |-> [ action |-> "move_backward", safety_check |-> TRUE,
                         keywords |-> { "houtui", "wanghou", "xianghou" } ],
      xiangqian    |-> [ action |-> "move_forward", safety_check |-> TRUE,
                         keywords |-> { "xiangqian", "wangqian", "qianjin" } ],
      tiaowu       |-> [ action |-> "dance", safety_check |-> FALSE,
                         keywords |-> { "tiaowu", "tiaoyixia", "tiaoqilai" } ] ]

get_command_params(command_type) == COMMAND_PARAMS[command_type]

needs_safety_check(command_type) == COMMAND_PARAMS[command_type].safety_check

-----------------------------------------------------------------------------
(* config/emotions.py *)

\* EmotionType values, in declaration order
EmotionType ==
    << "gaoxing", "nanguo", "fennu", "jingya", "haipa",
       "pingjing", "xingfen", "wuliao", "youshan", "haixiu" >>

Emotions == Range(EmotionType)

\* speech_speed, volume and pitch in tenths; keywords are the substrings
\* get_emotion_by_keywords looks for
EMOTION_PARAMS ==
    [ gaoxing  |-> [ speech_speed |-> 12, volume |-> 11, pitch |-> 11,
                     keywords |-> { "hao", "xihuan", "bang", "kaixin" } ],
      nanguo   |-> [ speech_speed |-> 8, volume |-> 9, pitch |-> 9,
                     keywords |-> { "buhao", "nanguo", "shangxin", "shiwang" } ],
      fennu    |-> [ speech_speed |-> 13, volume |-> 12, pitch |-> 12,
                     keywords |-> { "shengqi", "taoyan", "buyao", "bie" } ],
      jingya   |-> [ speech_speed |-> 11, volume |-> 11, pitch |-> 12,
                     keywords |-> { "wa", "zhendema", "jingran", "meixiangdao" } ],
      haipa    |-> [ speech_speed |-> 12, volume |-> 8, pitch |-> 11,
                     keywords |-> { "haipa", "kepa", "weixian", "xiaoxin" } ],
      pingjing |-> [ speech_speed |-> 10, volume |-> 10, pitch |-> 10,
                     keywords |-> { "haode", "mingbai", "zhidao", "pingjing" } ],
      xingfen  |-> [ speech_speed |-> 13, volume |-> 12, pitch |-> 12,
                     keywords |-> { "taihaole", "taibangle", "haojidong", "qidai" } ],
      wuliao   |-> [ speech_speed |-> 9, volume |-> 9, pitch |-> 9,
                     keywords |-> { "wuliao", "kun", "fa", "lan" } ],
      youshan  |-> [ speech_speed |-> 11, volume |-> 10, pitch |-> 10,
                     keywords |-> { "pengyou", "yiqi", "bangzhu", "xiexie" } ],
      haixiu   |-> [ speech_speed |-> 9, volume |-> 8, pitch |-> 9,
                     keywords |-> { "haixiu", "buhaoyisi", "baoqian", "duibuqi" } ] ]

\* the three voice parameters of the table entry, in 1/ParamOne
get_emotion_params(emotion_type) ==
    [ speech_speed |-> EMOTION_PARAMS[emotion_type].speech_speed * (ParamOne \div 10),
      volume       |-> EMOTION_PARAMS[emotion_type].volume * (ParamOne \div 10),
      pitch        |-> EMOTION_PARAMS[emotion_type].pitch * (ParamOne \div 10) ]

-----------------------------------------------------------------------------
(* Texts.  A text is a sequence of phrases; Substrings(p) is the set of      *)
(* keyword strings of the source tables that occur inside phrase p (the     *)
(* source matches keywords with Python's substring test `keyword in text`). *)

Lexicon ==
    { "guolai", "zhuanshen", "kuaipao", "tiaowu", "biedong", "zhuang",
      "weixian", "haipa", "shengqi", "nihao", "shenme", "wenhao", "qing",
      "haoma", "tianqi" }

Substrings(p) ==
    CASE p = "tiaowu"  -> { "tiaowu", "tiao" }      \* "dance" holds "jump"
      [] p = "biedong" -> { "biedong", "bie" }      \* "don't move" holds "don't"
      [] p = "nihao"   -> { "nihao", "hao" }        \* "hello" holds "good"
      [] p = "haoma"   -> { "haoma", "hao" }        \* "all right?" holds "good"
      [] OTHER         -> { p }

InText(keyword, text) == \E i \in DOMAIN text : keyword \in Substrings(text[i])

\* config/vocabulary.py ALL_VOCABULARY, the part of it the lexicon meets
ALL_VOCABULARY == { "nihao", "shenme", "haoma", "zaijian", "weishenme", "haode" }

is_valid_word(word) == word \in ALL_VOCABULARY

get_command_by_keywords(text) ==
    Filter(CommandType,
           { c \in Commands : \E k \in COMMAND_PARAMS[c].keywords : InText(k, text) })

get_emotion_by_keywords(text) ==
    Filter(EmotionType,
           { e \in Emotions : \E k \in EMOTION_PARAMS[e].keywords : InText(k, text) })

-----------------------------------------------------------------------------
(* config/config.json.  `loaded` is whether the file could be opened and    *)
(* parsed; `keys` are the entries present in it (a missing entry raises     *)
(* KeyError where the code indexes it).                                     *)

ConfigKeys ==
    { "min_obstacle_distance", "danger_keywords", "restricted_areas",
      "max_speed", "required_checks", "triggers" }

\* the safety checks _pass_safety_check knows, and one it does not
CheckNames == { "distance", "speed", "obstacles", "area", "battery" }

\* server.py DEFAULT_CONFIG: no restricted_areas, max_speed or required_checks
DefaultKeys == { "min_obstacle_distance", "danger_keywords", "triggers" }

\* emotion.rules.triggers of DEFAULT_CONFIG: four entries, keyed by the
\* config's emotion names (shengqi, not fennu)
DefaultTriggers ==
    [ gaoxing |-> { "biaoyang", "chenggong", "bangzhu" },
      nanguo  |-> { "shibai", "daoqian", "libie" },
      shengqi |-> { "piping", "darao", "buzunzhong" },
      jingya  |-> { "yiwai", "turan", "teshu" } ]

\* `ranges_ok` is whether speech_speed_range and volume_range, when present,
\* are [min, max] pairs of numbers (indexing anything else raises)
MakeConfig(loaded, keys, checks, ranges_ok) ==
    [ loaded                |-> loaded,
      keys                  |-> keys,
      ranges_ok             |-> ranges_ok,
      speech_speed_range    |-> << 8, 13 >>,       \* tenths
      volume_range          |-> << 8, 12 >>,
      pitch_range           |-> << 9, 12 >>,
      triggers              |-> DefaultTriggers,
      response_keys         |-> { "wenhou", "gaobie", "kending", "fouding" },
      min_obstacle_distance |-> 10,
      max_speed             |-> 20,
      danger_keywords       |-> { "zhuang", "tiao", "shuai", "da", "ti",
                                  "shanghai", "weixian", "pohuai", "sunhuai" },
      restricted_areas      |-> { "restricted_zone" },
      required_checks       |-> checks ]

\* Each constructor opens the file itself and keeps None when that fails.
\* ContextAnalyzer.__init__ and EmotionAnalyzer.__init__ only parse the file.
AnalyzerConfigLoaded(cfg) == cfg.loaded

\* DecisionMaker.__init__ also indexes danger_keywords and restricted_areas
\* inside the same try: a file without either leaves config None and both
\* sets empty.
DecisionConfigLoaded(cfg) ==
    /\ cfg.loaded
    /\ "danger_keywords" \in cfg.keys
    /\ "restricted_areas" \in cfg.keys

DecisionDangerKeywords(cfg) ==
    IF DecisionConfigLoaded(cfg) THEN cfg.danger_keywords ELSE {}

DecisionRestrictedAreas(cfg) ==
    IF DecisionConfigLoaded(cfg) THEN cfg.restricted_areas ELSE {}

-----------------------------------------------------------------------------
(* Scene snapshots.  A field value is a number (tenths), absent, or a value *)
(* Python cannot compare with a number (a string).                          *)

Num(v) == [ k |-> "num", v |-> v ]
Absent == [ k |-> "absent", v |-> 0 ]
NotNum == [ k |-> "str", v |-> 0 ]

MakeScene(has_list, obstacles, raw_flag, raw_safe, raw_distance, area, speed, temperature) ==
    [ obstacles_key     |-> has_list,      \* 'obstacles' in scene_info
      obstacles         |-> obstacles,     \* the 'distance' of each obstacle
      has_obstacles     |-> raw_flag,      \* scene['has_obstacles']: absent/true/false
      is_safe           |-> raw_safe,      \* scene['is_safe']: absent/true/false
      obstacle_distance |-> raw_distance,  \* scene['obstacle_distance']
      area              |-> area,          \* scene['area'], "absent" if missing
      speed             |-> speed,         \* scene['speed']
      temperature       |-> temperature ]  \* absent/normal/hot/cold/bad

\* scene_info None or {}: `if scene_info:` is false
EmptyScene ==
    MakeScene(FALSE, << >>, "absent", "absent", Absent, "absent", Absent, "absent")

-----------------------------------------------------------------------------
(* core/context_analyzer.py *)

_extract_keywords(words) == { w \in Range(words) : is_valid_word(w) }

\* the loop over obstacles: True at the end, False at the first obstacle
\* nearer than min_distance, and the except branch (True) at the first
\* obstacle whose distance cannot be compared
RECURSIVE ScanObstacles(_, _)
ScanObstacles(obstacles, min_distance) ==
    IF obstacles = << >> THEN TRUE
    ELSE LET d == obstacles[1] IN
         CASE d.k = "str"    -> TRUE
           [] d.k = "absent" -> ScanObstacles(Tail(obstacles), min_distance)
           [] OTHER          -> IF d.v < min_distance THEN FALSE
                                ELSE ScanObstacles(Tail(obstacles), min_distance)

_check_safety(cfg, commands, obstacles) ==
    IF commands = << >> \/ obstacles = << >> THEN TRUE
    ELSE IF ~AnalyzerConfigLoaded(cfg) THEN TRUE
    ELSE IF "min_obstacle_distance" \notin cfg.keys THEN TRUE
    ELSE ScanObstacles(obstacles, cfg.min_obstacle_distance)

PoliteRequest(text) ==
    \E i, j \in DOMAIN text :
        /\ i < j
        /\ text[i] \in { "qing", "mafan", "bangmang" }
        /\ text[j] \in { "haoma", "keyima" }

\* the four scores in tenths, in the insertion order of type_scores
type_scores(text, verbs, particles, keywords, possible_commands) ==
    << [ type  |-> "command",
         score |-> (IF possible_commands # << >> THEN 6 ELSE 0) + verbs
                   + (IF PoliteRequest(text) THEN 3 ELSE 0) ],
       [ type  |-> "question",
         score |-> particles
                   + (IF InText("wenhao", text) THEN 4 ELSE 0)
                   + (IF keywords \cap { "shima", "zhendema", "shenme",
                                         "weishenme", "zenmeyang" } # {}
                      THEN 4 ELSE 0) ],
       [ type  |-> "greeting",
         score |-> IF keywords \cap { "nihao", "zaoshanghao", "xiawuhao",
                                      "wanshanghao", "zaijian" } # {}
                   THEN 6 ELSE 0 ],
       [ type  |-> "chat", score |-> 1 ] >>

\* _analyze_context_type returning the last entry with the top score
AnalyzeContextTypeLast(text, verbs, particles, keywords, possible_commands) ==
    LET scores == type_scores(text, verbs, particles, keywords, possible_commands)
        top    == SeqMax([ i \in DOMAIN scores |-> scores[i].score ])
        last   == CHOOSE i \in DOMAIN scores :
                      /\ scores[i].score = top
                      /\ \A j \in DOMAIN scores : scores[j].score = top => j <= i
    IN  scores[last]

\* max(type_scores.items(), key=score): the first entry with the top score
_analyze_context_type(text, verbs, particles, keywords, possible_commands) ==
    LET scores == type_scores(text, verbs, particles, keywords, possible_commands)
        top    == SeqMax([ i \in DOMAIN scores |-> scores[i].score ])
        first  == CHOOSE i \in DOMAIN scores :
                      /\ scores[i].score = top
                      /\ \A j \in DOMAIN scores : scores[j].score = top => i <= j
    IN  scores[first]

_combine_scene_info(cfg, ctx, scene_info) ==
    IF scene_info = EmptyScene THEN ctx
    ELSE [ ctx EXCEPT
             !.has_scene     = TRUE,
             !.scene         = scene_info,
             !.has_obstacles = scene_info.obstacles_key /\ scene_info.obstacles # << >>,
             !.is_safe       = IF scene_info.obstacles_key
                               THEN _check_safety(cfg, ctx.possible_commands,
                                                  scene_info.obstacles)
                               ELSE TRUE ]

\* the context returned from the except branch of analyze
DefaultContext(text) ==
    [ is_dict            |-> TRUE,
      original_text      |-> text,
      verbs              |-> 0,
      particles          |-> 0,
      keywords           |-> {},
      possible_commands  |-> << >>,
      possible_emotions  |-> << >>,
      context_type       |-> "chat",
      context_confidence |-> 5,
      has_scene          |-> FALSE,
      scene              |-> EmptyScene,
      has_obstacles      |-> FALSE,
      is_safe            |-> TRUE ]

\* ContextAnalyzer.analyze.  `words_ok` is whether the tokenizer returned;
\* verbs and particles are the numbers of tokens it tagged 'v' and 'y' (what
\* the model keeps of pos_tags).  is_dict tells a context from an argument
\* that is no dict.
\* has_obstacles / is_safe of a context without scene are the defaults every
\* reader passes to context.get.
ContextAnalyze(cfg, text, verbs, particles, words_ok, scene_info) ==
    IF ~words_ok THEN DefaultContext(text)
    ELSE LET keywords == _extract_keywords(text)
             commands == get_command_by_keywords(text)
             kind     == _analyze_context_type(text, verbs, particles, keywords, commands)
         IN  _combine_scene_info(cfg,
                 [ is_dict            |-> TRUE,
                   original_text      |-> text,
                   verbs              |-> verbs,
                   particles          |-> particles,
                   keywords           |-> keywords,
                   possible_commands  |-> commands,
                   possible_emotions  |-> get_emotion_by_keywords(text),
                   context_type       |-> kind.type,
                   context_confidence |-> kind.score,
                   has_scene          |-> FALSE,
                   scene              |-> EmptyScene,
                   has_obstacles      |-> FALSE,
                   is_safe            |-> TRUE ],
                 scene_info)

-----------------------------------------------------------------------------
(* core/emotion_analyzer.py *)

\* config['emotion']['rules']['triggers'] is indexed for every emotion once
\* the config is loaded: a file without it makes _recognize_emotion raise
RecognizeRaises(cfg) == AnalyzerConfigLoaded(cfg) /\ "triggers" \notin cfg.keys

\* context.get of an argument that is no dict, or EmotionType(e) of a string
\* that is no EmotionType value, makes _recognize_emotion raise
ContextRaises(ctx) ==
    \/ ~ctx.is_dict
    \/ \E i \in DOMAIN ctx.possible_emotions : ctx.possible_emotions[i] \notin Emotions

\* indexing a malformed range makes _adjust_params raise
AdjustRaises(cfg) == AnalyzerConfigLoaded(cfg) /\ ~cfg.ranges_ok

_calculate_keyword_score(cfg, emo, keywords) ==
    IF ~AnalyzerConfigLoaded(cfg) THEN 0
    ELSE LET emotion_keywords ==
                 IF emo \in DOMAIN cfg.triggers THEN cfg.triggers[emo] ELSE {}
         IN  IF emotion_keywords = {} THEN 0
             ELSE (Cardinality(keywords \cap emotion_keywords) * ScoreOne)
                      \div Cardinality(emotion_keywords)

_get_context_type_scores(context_type, emo) ==
    CASE context_type = "greeting" ->
             (CASE emo = "youshan" -> 480 [] emo = "gaoxing" -> 360 [] OTHER -> 0)
      [] context_type = "command" ->
             (CASE emo = "xingfen" -> 420 [] emo = "youshan" -> 300 [] OTHER -> 0)
      [] context_type = "question" ->
             (CASE emo = "jingya" -> 360 [] emo = "youshan" -> 240 [] OTHER -> 0)
      [] OTHER ->
             (CASE emo = "pingjing" -> 300 [] emo = "youshan" -> 180 [] OTHER -> 0)

\* count / total * 0.5
_calculate_history_scores(history, emo) ==
    IF history = << >> THEN 0
    ELSE (Count(history, emo) * (ScoreOne \div 2)) \div Len(history)

\* reads the raw scene: scene['is_safe'], scene['has_obstacles'] and the
\* temperature string
_calculate_scene_scores(scene, emo) ==
    LET unsafe == scene.is_safe = "false"
        blocked == scene.has_obstacles = "true"
    IN  CASE emo = "haipa"  -> (IF unsafe THEN 480 ELSE 0) + (IF blocked THEN 240 ELSE 0)
          [] emo = "jingya" -> IF unsafe THEN 360 ELSE 0
          [] emo = "fennu"  -> IF scene.temperature = "hot" THEN 180 ELSE 0
          [] emo = "nanguo" -> IF scene.temperature = "cold" THEN 180 ELSE 0
          [] OTHER          -> 0

emotion_scores(cfg, ctx, history) ==
    [ emo \in Emotions |->
          _calculate_keyword_score(cfg, emo, ctx.keywords)
        + _get_context_type_scores(ctx.context_type, emo)
        + _calculate_history_scores(history, emo)
        + _calculate_scene_scores(ctx.scene, emo) ]

MaxScore(scores) == CHOOSE m \in Range(scores) : \A e \in DOMAIN scores : scores[e] <= m

\* the emotions _recognize_emotion may select: the first keyword-matched
\* candidate, else any of the top-scoring ones (random.choice)
SelectedEmotionsByScore(cfg, ctx, history) ==
    LET scores == emotion_scores(cfg, ctx, history)
    IN  { e \in Emotions : scores[e] = MaxScore(scores) }

SelectedEmotions(cfg, ctx, history) ==
    LET scores == emotion_scores(cfg, ctx, history)
    IN  IF ctx.possible_emotions # << >> THEN { ctx.possible_emotions[1] }
        ELSE { e \in Emotions : scores[e] = MaxScore(scores) }

\* max_score / (len(emotion_scores) * 4), clamped to [0, 1]
RecognizedConfidence(cfg, ctx, history) ==
    LET max_score == MaxScore(emotion_scores(cfg, ctx, history))
    IN  Min(ConfOne, Max(0, (max_score * ConfOne) \div (Len(EmotionType) * 4 * ScoreOne)))

\* append, then drop the oldest entry when over history_size
UpdateEmotionStateDropNewest(history, new_emotion) ==
    LET appended == Append(history, new_emotion)
    IN  IF Len(appended) > history_size THEN SubSeq(appended, 1, history_size)
        ELSE appended

_update_emotion_state(history, new_emotion) ==
    LET appended == Append(history, new_emotion)
    IN  IF Len(appended) > history_size THEN Tail(appended) ELSE appended

Clamp(lo, hi, x) == Max(lo, Min(hi, x))

\* value * confidence + 1.0 * (1 - confidence)
Blend(value, confidence) ==
    (value \div ConfOne) * confidence + (ParamOne \div ConfOne) * (ConfOne - confidence)

_adjust_params(cfg, params, ctx, confidence) ==
    IF ~AnalyzerConfigLoaded(cfg) THEN params
    ELSE LET unsafe  == ~ctx.is_safe
             command == ctx.context_type = "command"
             speed1  == Blend(params.speech_speed, confidence)
             speed2  == IF unsafe THEN (speed1 * 12) \div 10 ELSE speed1
             speed3  == IF command THEN (speed2 * 11) \div 10 ELSE speed2
             volume1 == Blend(params.volume, confidence)
             volume2 == IF unsafe THEN (volume1 * 8) \div 10 ELSE volume1
         IN  [ speech_speed |-> Clamp(cfg.speech_speed_range[1] * (ParamOne \div 10),
                                      cfg.speech_speed_range[2] * (ParamOne \div 10), speed3),
               volume       |-> Clamp(cfg.volume_range[1] * (ParamOne \div 10),
                                      cfg.volume_range[2] * (ParamOne \div 10), volume2),
               pitch        |-> Blend(params.pitch, confidence) ]

\* the result returned from the except branch of analyze
AnalyzeFallback(history) ==
    [ emotion_type |-> "pingjing",
      params       |-> get_emotion_params("pingjing"),
      history      |-> history,
      confidence   |-> ConfOne \div 2 ]

-----------------------------------------------------------------------------
(* core/decision_maker.py *)

\* reject reasons: the reason string a rejection embeds
\*   env_unsafe "the environment is not safe", danger_words, obstacle,
\*   restricted_area, speed_limit, cannot_check "cannot complete the safety
\*   check", bad_mood, too_frequent, cannot_process, no_command, cannot_decide

\* _pass_safety_check taking a scene without obstacle_distance as distance 0
PassSafetyCheckNoDistanceDefault(cfg, check_type, scene) ==
    CASE check_type = "distance" ->
             IF ~DecisionConfigLoaded(cfg) \/ "min_obstacle_distance" \notin cfg.keys
             THEN FALSE
             ELSE (CASE scene.obstacle_distance.k = "absent" -> 0 >= cfg.min_obstacle_distance
                     [] scene.obstacle_distance.k = "str"    -> FALSE
                     [] OTHER -> scene.obstacle_distance.v >= cfg.min_obstacle_distance)
      [] check_type = "speed" ->
             IF ~DecisionConfigLoaded(cfg) \/ "max_speed" \notin cfg.keys
             THEN FALSE
             ELSE (CASE scene.speed.k = "absent" -> 0 <= cfg.max_speed
                     [] scene.speed.k = "str"    -> FALSE
                     [] OTHER -> scene.speed.v <= cfg.max_speed)
      [] check_type = "obstacles" -> scene.has_obstacles # "true"
      [] check_type = "area" -> scene.area \notin DecisionRestrictedAreas(cfg)
      [] OTHER -> TRUE

_pass_safety_check(cfg, check_type, scene) ==
    CASE check_type = "distance" ->
             IF ~DecisionConfigLoaded(cfg) \/ "min_obstacle_distance" \notin cfg.keys
             THEN FALSE
             ELSE (CASE scene.obstacle_distance.k = "absent" -> TRUE
                     [] scene.obstacle_distance.k = "str"    -> FALSE
                     [] OTHER -> scene.obstacle_distance.v >= cfg.min_obstacle_distance)
      [] check_type = "speed" ->
             IF ~DecisionConfigLoaded(cfg) \/ "max_speed" \notin cfg.keys
             THEN FALSE
             ELSE (CASE scene.speed.k = "absent" -> 0 <= cfg.max_speed
                     [] scene.speed.k = "str"    -> FALSE
                     [] OTHER -> scene.speed.v <= cfg.max_speed)
      [] check_type = "obstacles" -> scene.has_obstacles # "true"
      [] check_type = "area" -> scene.area \notin DecisionRestrictedAreas(cfg)
      [] OTHER -> TRUE

SafetyResult(is_safe, reason, score) ==
    [ is_safe |-> is_safe, reason |-> reason, score |-> score ]

\* the safety score without the division by len(safety_checks)
SafetyScoreUndivided(cfg, scene) ==
    Cardinality({ i \in DOMAIN cfg.required_checks :
                      _pass_safety_check(cfg, cfg.required_checks[i], scene) })
        * SafetyOne

\* passed_checks / len(safety_checks)
SafetyScore(cfg, scene) ==
    (Cardinality({ i \in DOMAIN cfg.required_checks :
                       _pass_safety_check(cfg, cfg.required_checks[i], scene) })
         * SafetyOne) \div Len(cfg.required_checks)

\* step 4.3: float(scene['speed']) > max_speed; a speed that is no number or
\* a missing max_speed raises inside the inner try and is passed over
SpeedOverLimit(cfg, scene) ==
    /\ scene.speed.k = "num"
    /\ DecisionConfigLoaded(cfg)
    /\ "max_speed" \in cfg.keys
    /\ scene.speed.v > cfg.max_speed

\* CommandType(command) of a string that is no command id raises inside the
\* try of _check_command_safety, like step 5 below.
\* step 5 raises (config None, no required_checks entry, or an empty list:
\* division by zero), which the outer except turns into a failed check
ScoreRaises(cfg) ==
    \/ ~DecisionConfigLoaded(cfg)
    \/ "required_checks" \notin cfg.keys
    \/ cfg.required_checks = << >>

\* _check_command_safety without its danger keyword step
CheckCommandSafetyNoDangerWords(cfg, command, ctx) ==
    LET scene == ctx.scene IN
    IF command \notin Commands THEN SafetyResult(FALSE, "cannot_check", 0)
    ELSE IF ~needs_safety_check(command) THEN SafetyResult(TRUE, "none", SafetyOne)
    ELSE IF ~ctx.is_safe THEN SafetyResult(FALSE, "env_unsafe", 0)
    ELSE IF scene.has_obstacles = "true" /\ scene.obstacles # << >>
         THEN SafetyResult(FALSE, "obstacle", 0)
    ELSE IF scene.area \in DecisionRestrictedAreas(cfg)
         THEN SafetyResult(FALSE, "restricted_area", 0)
    ELSE IF SpeedOverLimit(cfg, scene) THEN SafetyResult(FALSE, "speed_limit", 0)
    ELSE IF ScoreRaises(cfg) THEN SafetyResult(FALSE, "cannot_check", 0)
    ELSE SafetyResult(TRUE, "none", SafetyScore(cfg, scene))

_check_command_safety(cfg, command, ctx) ==
    LET scene == ctx.scene IN
    IF command \notin Commands THEN SafetyResult(FALSE, "cannot_check", 0)
    ELSE IF ~needs_safety_check(command) THEN SafetyResult(TRUE, "none", SafetyOne)
    ELSE IF ~ctx.is_safe THEN SafetyResult(FALSE, "env_unsafe", 0)
    ELSE IF \E w \in DecisionDangerKeywords(cfg) : InText(w, ctx.original_text)
         THEN SafetyResult(FALSE, "danger_words", 0)
    ELSE IF scene.has_obstacles = "true" /\ scene.obstacles # << >>
         THEN SafetyResult(FALSE, "obstacle", 0)
    ELSE IF scene.area \in DecisionRestrictedAreas(cfg)
         THEN SafetyResult(FALSE, "restricted_area", 0)
    ELSE IF SpeedOverLimit(cfg, scene) THEN SafetyResult(FALSE, "speed_limit", 0)
    ELSE IF ScoreRaises(cfg) THEN SafetyResult(FALSE, "cannot_check", 0)
    ELSE SafetyResult(TRUE, "none", SafetyScore(cfg, scene))

\* _check_command_history allowing one repetition more
CheckCommandHistoryOffByOne(history, command) ==
    Count(LastN(history, RecentWindow), command) <= RepeatLimit

\* recent_commands.count(command) < 2 over the last 3 entries
_check_command_history(history, command) ==
    Count(LastN(history, RecentWindow), command) < RepeatLimit

\* _update_command_history without the eviction
UpdateCommandHistoryNoEvict(history, command) == Append(history, command)

_update_command_history(history, command) ==
    LET appended == Append(history, command)
    IN  IF Len(appended) > max_history_size THEN Tail(appended) ELSE appended

\* the emotion_type strings the emotion check of _process_command lists
BlockingMoods == { "haipa", "shengqi" }

Rejection(command, reason, template, has_score, score) ==
    [ should_execute    |-> FALSE,
      action_type       |-> "none",
      reject_reason     |-> reason,
      reject_template   |-> template,
      response_template |-> 0,
      vocabulary        |-> "ALL_VOCABULARY",
      has_score         |-> has_score,
      safety_score      |-> score,
      command           |-> command ]

Execution(command, template, score) ==
    [ should_execute    |-> TRUE,
      action_type       |-> get_command_params(command).action,
      reject_reason     |-> "none",
      reject_template   |-> 0,
      response_template |-> template,
      vocabulary        |-> "ALL_VOCABULARY",
      has_score         |-> TRUE,
      safety_score      |-> score,
      command           |-> command ]

\* an emotion dict without 'emotion_type' has emotion_type "missing": indexing
\* it raises and the except branch of _process_command answers
\* _process_command: the result for one candidate and the command history it
\* leaves.  `template` is the index random.choice picks, among the reject
\* templates for a rejection and among the command's response templates for
\* an execution.
ProcessCommandRecordsMoodRejection(cfg, command, ctx, emo, history, template) ==
    LET safety_result == _check_command_safety(cfg, command, ctx) IN
    IF ~safety_result.is_safe
    THEN [ result  |-> Rejection(command, safety_result.reason, template, TRUE,
                                 safety_result.score),
           history |-> history ]
    ELSE IF emo.emotion_type = "missing"
    THEN [ result  |-> Rejection(command, "cannot_process", 0, TRUE, 0),
           history |-> history ]
    ELSE IF emo.emotion_type \in BlockingMoods
    THEN [ result  |-> Rejection(command, "bad_mood", template, TRUE, SafetyOne \div 2),
           history |-> _update_command_history(history, command) ]
    ELSE IF ~_check_command_history(history, command)
    THEN [ result  |-> Rejection(command, "too_frequent", template, TRUE,
                                 SafetyOne \div 2),
           history |-> history ]
    ELSE [ result  |-> Execution(command, template, safety_result.score),
           history |-> _update_command_history(history, command) ]

_process_command(cfg, command, ctx, emo, history, template) ==
    LET safety_result == _check_command_safety(cfg, command, ctx) IN
    IF ~safety_result.is_safe
    THEN [ result  |-> Rejection(command, safety_result.reason, template, TRUE,
                                 safety_result.score),
           history |-> history ]
    ELSE IF emo.emotion_type = "missing"
    THEN [ result  |-> Rejection(command, "cannot_process", 0, TRUE, 0),
           history |-> history ]
    ELSE IF emo.emotion_type \in BlockingMoods
    THEN [ result  |-> Rejection(command, "bad_mood", template, TRUE, SafetyOne \div 2),
           history |-> history ]
    ELSE IF ~_check_command_history(history, command)
    THEN [ result  |-> Rejection(command, "too_frequent", template, TRUE,
                                 SafetyOne \div 2),
           history |-> history ]
    ELSE [ result  |-> Execution(command, template, safety_result.score),
           history |-> _update_command_history(history, command) ]

\* the loop of make_decision over possible_commands, candidate i onwards
RECURSIVE ProcessCommands(_, _, _, _, _, _, _)
ProcessCommands(cfg, commands, i, ctx, emo, history, templates) ==
    IF i > Len(commands) THEN [ results |-> << >>, history |-> history ]
    ELSE LET one  == _process_command(cfg, commands[i], ctx, emo, history, templates[i])
             rest == ProcessCommands(cfg, commands, i + 1, ctx, emo, one.history, templates)
         IN  [ results |-> << one.result >> \o rest.results, history |-> rest.history ]

\* max(executable_results, key=safety_score): the first with the top score
SelectFirstExecutableResult(results) ==
    LET executable == { i \in DOMAIN results : results[i].should_execute } IN
    IF results = << >>
    THEN Rejection("none", "no_command", 0, FALSE, 0)
    ELSE IF executable # {}
    THEN results[CHOOSE i \in executable : \A j \in executable : i <= j]
    ELSE results[1]

_select_best_command_result(results) ==
    LET executable == { i \in DOMAIN results : results[i].should_execute } IN
    IF results = << >>
    THEN Rejection("none", "no_command", 0, FALSE, 0)
    ELSE IF executable # {}
    THEN results[CHOOSE i \in executable :
                     \A j \in executable :
                         \/ results[j].safety_score < results[i].safety_score
                         \/ (results[j].safety_score = results[i].safety_score /\ i <= j)]
    ELSE results[1]

_get_vocabulary_constraints(cfg, response_type) ==
    IF ~DecisionConfigLoaded(cfg) THEN "ALL_VOCABULARY"
    ELSE IF response_type \in cfg.response_keys THEN response_type
    ELSE "ALL_VOCABULARY"

_generate_chat_decision(cfg, ctx) ==
    [ should_execute    |-> TRUE,
      action_type       |-> "none",
      reject_reason     |-> "none",
      reject_template   |-> 0,
      response_template |-> 0,
      vocabulary        |-> _get_vocabulary_constraints(cfg,
                                IF ctx.context_type \in { "greeting", "question" }
                                THEN ctx.context_type ELSE "chat"),
      has_score         |-> FALSE,
      safety_score      |-> 0,
      command           |-> "none" ]

\* make_decision's own except branch (the argument is no dict)
CannotDecideUnanswered == Rejection("none", "none", 0, FALSE, 0)

CannotDecide == Rejection("none", "cannot_decide", 0, FALSE, 0)

\* whether make_decision takes the command branch
IsCommandRequestByTypeOnly(ctx) == ctx.context_type = "command"

IsCommandRequest(ctx) == ctx.context_type = "command" /\ ctx.possible_commands # << >>

-----------------------------------------------------------------------------
(* Inputs *)

CfgMissing == MakeConfig(FALSE, {}, << >>, TRUE)
CfgDefault == MakeConfig(TRUE, DefaultKeys, << >>, TRUE)
CfgFull == MakeConfig(TRUE, ConfigKeys, << "distance", "speed", "obstacles", "area" >>, TRUE)
CfgNoChecks == MakeConfig(TRUE, ConfigKeys, << >>, TRUE)
CfgOddChecks == MakeConfig(TRUE, ConfigKeys, << "speed", "battery" >>, TRUE)
CfgNoThresholds ==
    MakeConfig(TRUE, ConfigKeys \ { "min_obstacle_distance", "max_speed" },
               << "distance", "area" >>, TRUE)
CfgBadRanges == MakeConfig(TRUE, ConfigKeys, << "obstacles" >>, FALSE)
CfgNoTriggers == MakeConfig(TRUE, ConfigKeys \ { "triggers" }, << "area" >>, TRUE)
\* a file that narrows the three ranges: the voice is never raised in pitch
CfgNarrowRanges ==
    [ CfgFull EXCEPT !.speech_speed_range = << 9, 11 >>,
                     !.volume_range = << 9, 11 >>,
                     !.pitch_range = << 9, 10 >> ]

Configs ==
    { CfgMissing, CfgDefault, CfgFull, CfgNoChecks, CfgOddChecks, CfgNoThresholds,
      CfgBadRanges, CfgNoTriggers, CfgNarrowRanges }

Texts ==
    { << "guolai" >>, << "tiaowu" >>, << "guolai", "zhuang" >>,
      << "guolai", "zhuanshen" >>, << "qing", "guolai", "haoma" >>,
      << "biedong" >>, << "guolai", "haipa" >>, << "nihao" >>,
      << "shenme", "wenhao" >>, << "tianqi" >>, << "guolai", "nihao" >> }

SceneClear == MakeScene(TRUE, << >>, "absent", "absent", Absent, "lab", Num(10), "normal")
SceneNear == MakeScene(TRUE, << Num(3) >>, "absent", "absent", Absent, "lab", Absent, "absent")
SceneFar == MakeScene(TRUE, << Num(10), Absent >>, "absent", "absent", Num(15), "absent", Absent, "hot")
SceneOddNear == MakeScene(TRUE, << NotNum, Num(3) >>, "absent", "absent", Absent, "absent", NotNum, "absent")
SceneFlagged == MakeScene(TRUE, << Num(15) >>, "true", "false", Num(5), "absent", Absent, "cold")
SceneRestricted == MakeScene(FALSE, << >>, "false", "true", Absent, "restricted_zone", Absent, "bad")
SceneFast == MakeScene(FALSE, << >>, "absent", "absent", Absent, "lab", Num(30), "absent")

Scenes ==
    { EmptyScene, SceneClear, SceneNear, SceneFar, SceneOddNear, SceneFlagged,
      SceneRestricted, SceneFast }

-----------------------------------------------------------------------------
(* State machine *)

NoEmotion == AnalyzeFallback(<< >>)
NoDecision == Rejection("none", "none", 0, FALSE, 0)
NoStreak == [ command |-> "none", n |-> 0, ok |-> TRUE ]

\* the two callers of make_decision that share a DecisionMaker
Callers == { "first", "second" }

\* no concurrent calls under way
NoRace ==
    [ start |-> << >>,
      calls |-> [ t \in Callers |-> [ command |-> "none", at |-> "done", passed |-> FALSE ] ] ]

\* no _retry_request call under way
NoRetry ==
    [ at |-> "idle", max_retries |-> 0, initialized |-> FALSE, attempt |-> 0,
      outcomes |-> << >>, sleeps |-> << >>, error |-> "none" ]

InitWith(cfgs) ==
    /\ config \in cfgs
    /\ current_emotion = "pingjing"
    /\ emotion_history = << >>
    /\ command_history = << >>
    /\ pc = "idle"
    /\ context = DefaultContext(<< >>)
    /\ emotion = NoEmotion
    /\ command_results = << >>
    /\ decision = NoDecision
    /\ prev_emotion = "pingjing"
    /\ prev_commands = << >>
    /\ emotion_raised = FALSE
    /\ turns = 0
    /\ decided_log = << >>
    /\ streak = NoStreak
    /\ returned = {}
    /\ race = NoRace
    /\ retry = NoRetry

\* ContextAnalyzer.analyze(text, scene_info) for a new request
AnalyzeContextOver(texts, scenes, verb_counts, particle_counts, tokenizer) ==
    /\ pc = "idle"
    /\ \E text \in texts, scene_info \in scenes, verbs \in verb_counts,
          particles \in particle_counts, words_ok \in tokenizer :
           context' = ContextAnalyze(config, text, verbs, particles, words_ok, scene_info)
    /\ pc' = "analyzed"
    /\ UNCHANGED << config, current_emotion, emotion_history, command_history,
                    emotion, command_results, decision, prev_emotion, prev_commands,
                    emotion_raised, turns, decided_log, streak, returned, race, retry >>

\* EmotionAnalyzer.analyze(context)
AnalyzeEmotion ==
    /\ pc \in { "analyzed", "handed" }
    /\ pc' = "felt"
    /\ prev_emotion' = current_emotion
    /\ IF RecognizeRaises(config) \/ ContextRaises(context)
       THEN /\ emotion' = AnalyzeFallback(emotion_history)
            /\ emotion_raised' = TRUE
            /\ UNCHANGED << current_emotion, emotion_history >>
       ELSE \E emotion_type \in SelectedEmotions(config, context, emotion_history) :
              LET confidence == RecognizedConfidence(config, context, emotion_history)
                  history    == _update_emotion_state(emotion_history, emotion_type)
              IN  /\ current_emotion' = emotion_type
                  /\ emotion_history' = history
                  /\ emotion_raised' = AdjustRaises(config)
                  /\ emotion' =
                       IF AdjustRaises(config) THEN AnalyzeFallback(history)
                       ELSE [ emotion_type |-> emotion_type,
                              params       |-> _adjust_params(config,
                                                   get_emotion_params(emotion_type),
                                                   context, confidence),
                              history      |-> history,
                              confidence   |-> confidence ]
    /\ returned' = returned \cup { emotion'.emotion_type }
    /\ UNCHANGED << config, command_history, context, command_results, decision,
                    prev_commands, turns, decided_log, streak, race, retry >>

DecidedCommand(d) == IF d.should_execute THEN d.command ELSE "none"

\* the run of turns, from the start of the session, that each asked for the
\* same single command with the safety check passing and a mood that does
\* not block
NextStreak(s, ctx, emo) ==
    IF /\ s.ok
       /\ IsCommandRequest(ctx)
       /\ Len(ctx.possible_commands) = 1
       /\ s.command \in { "none", ctx.possible_commands[1] }
       /\ _check_command_safety(config, ctx.possible_commands[1], ctx).is_safe
       /\ emo.emotion_type \notin BlockingMoods
       /\ s.n < RecentWindow
    THEN [ command |-> ctx.possible_commands[1], n |-> s.n + 1, ok |-> TRUE ]
    ELSE [ command |-> "none", n |-> 0, ok |-> FALSE ]

\* DecisionMaker.make_decision(context, emotion)
MakeDecision ==
    /\ pc \in { "felt", "given" }
    /\ pc' = "decided"
    /\ prev_commands' = command_history
    /\ IF ~context.is_dict
       THEN /\ decision' = CannotDecide
            /\ command_results' = << >>
            /\ UNCHANGED command_history
       ELSE IF IsCommandRequest(context)
       THEN \E templates \in [ DOMAIN context.possible_commands -> 1 .. NumRejectTemplates ] :
              LET run == ProcessCommands(config, context.possible_commands, 1, context,
                                         emotion, command_history, templates)
              IN  /\ \A i \in DOMAIN run.results :
                         run.results[i].should_execute =>
                             templates[i] <= NumResponseTemplates
                  /\ command_results' = run.results
                  /\ command_history' = run.history
                  /\ decision' = _select_best_command_result(run.results)
       ELSE /\ decision' = _generate_chat_decision(config, context)
            /\ command_results' = << >>
            /\ UNCHANGED command_history
    /\ turns' = turns + 1
    /\ decided_log' = LastN(Append(decided_log, DecidedCommand(decision')), RecentWindow + 1)
    /\ streak' = NextStreak(streak, context, emotion)
    /\ UNCHANGED << config, current_emotion, emotion_history, context, emotion,
                    prev_emotion, emotion_raised, returned, race, retry >>

\* the decision is handed to the caller; the request-scoped context, emotion
\* result and per-candidate results are dropped
RespondForgetsOldest ==
    /\ pc = "decided"
    /\ pc' = "idle"
    /\ context' = DefaultContext(<< >>)
    /\ emotion' = NoEmotion
    /\ command_results' = << >>
    /\ decision' = NoDecision
    /\ prev_emotion' = current_emotion
    /\ command_history' = IF command_history = << >> THEN << >> ELSE Tail(command_history)
    /\ prev_commands' = command_history'
    /\ emotion_raised' = FALSE
    /\ UNCHANGED << config, current_emotion, emotion_history,
                    turns, decided_log, streak, returned, race, retry >>

Respond ==
    /\ pc = "decided"
    /\ pc' = "idle"
    /\ context' = DefaultContext(<< >>)
    /\ emotion' = NoEmotion
    /\ command_results' = << >>
    /\ decision' = NoDecision
    /\ prev_emotion' = current_emotion
    /\ prev_commands' = command_history
    /\ emotion_raised' = FALSE
    /\ UNCHANGED << config, current_emotion, emotion_history, command_history,
                    turns, decided_log, streak, returned, race, retry >>

\* Spec: one request of every kind, under every configuration
AnalyzeContext ==
    /\ turns < MaxTurns
    /\ AnalyzeContextOver(Texts, Scenes, { 0, MaxVerbs }, { 0, MaxParticles }, BOOLEAN)

Init == InitWith(Configs)

Next == AnalyzeContext \/ AnalyzeEmotion \/ MakeDecision \/ Respond

Spec == Init /\ [][Next]_vars

\* SpecSession: a session of several requests for a few commands
SessionConfigs == { CfgFull, CfgBadRanges }

SessionTexts ==
    { << "zhuanshen" >>, << "zhuanshen", "tiaowu" >>, << "kuaipao" >>, << "nihao" >> }

AnalyzeContextInSession ==
    /\ turns < MaxSessionTurns
    /\ AnalyzeContextOver(SessionTexts, { EmptyScene }, { 0 }, { 0 }, { TRUE })

InitSession == InitWith(SessionConfigs)

NextSession == AnalyzeContextInSession \/ AnalyzeEmotion \/ MakeDecision \/ Respond

SpecSession == InitSession /\ [][NextSession]_vars

\* SpecDirect: the three operations called with arguments the caller made
\* itself, next to requests that go through ContextAnalyzer.analyze
CallerContext(is_dict, text, commands, emotions, context_type, scene_info) ==
    [ is_dict            |-> is_dict,
      original_text      |-> text,
      verbs              |-> 0,
      particles          |-> 0,
      keywords           |-> {},
      possible_commands  |-> commands,
      possible_emotions  |-> emotions,
      context_type       |-> context_type,
      context_confidence |-> 6,
      has_scene          |-> scene_info # EmptyScene,
      scene              |-> scene_info,
      has_obstacles      |-> FALSE,
      is_safe            |-> TRUE ]

\* None in place of the context; a command id and an emotion name that the
\* enums do not hold ("feiqilai" fly up, "shengqi" the config's word for
\* angry); the context of "guolai" in a quiet scene
DirectContexts ==
    { CallerContext(FALSE, << >>, << >>, << >>, "chat", EmptyScene),
      CallerContext(TRUE, << "feiqilai" >>, << "feiqilai" >>, << >>, "command", EmptyScene),
      CallerContext(TRUE, << "feiqilai", "guolai" >>, << "feiqilai", "guolai" >>, << >>,
                    "command", SceneClear),
      CallerContext(TRUE, << "shengqi" >>, << >>, << "shengqi" >>, "chat", EmptyScene),
      CallerContext(TRUE, << "guolai" >>, << "guolai" >>, << >>, "command", EmptyScene),
      CallerContext(TRUE, << "guolai" >>, << "guolai" >>, << >>, "command", SceneClear) }

CallerEmotion(emotion_type) ==
    [ emotion_type |-> emotion_type,
      params       |-> get_emotion_params("pingjing"),
      history      |-> << >>,
      confidence   |-> ConfOne \div 2 ]

\* a calm and a scared emotion dict, and a dict without 'emotion_type'
DirectEmotions ==
    { CallerEmotion("pingjing"), CallerEmotion("haipa"), CallerEmotion("missing") }

\* the caller hands a context of its own to analyze / make_decision
SupplyContext ==
    /\ pc = "idle"
    /\ turns < MaxTurns
    /\ context' \in DirectContexts
    /\ pc' = "handed"
    /\ UNCHANGED << config, current_emotion, emotion_history, command_history,
                    emotion, command_results, decision, prev_emotion, prev_commands,
                    emotion_raised, turns, decided_log, streak, returned, race, retry >>

\* the caller hands an emotion dict of its own to make_decision
SupplyEmotion ==
    /\ pc \in { "analyzed", "handed" }
    /\ emotion' \in DirectEmotions
    /\ pc' = "given"
    /\ UNCHANGED << config, current_emotion, emotion_history, command_history,
                    context, command_results, decision, prev_emotion, prev_commands,
                    emotion_raised, turns, decided_log, streak, returned, race, retry >>

\* requests with malformed scene fields and a tokenizer that may fail
DirectTexts == { << "guolai" >>, << "nihao" >> }

\* a scene whose only entry is a distance reading below the minimum
SceneCloseReading ==
    MakeScene(FALSE, << >>, "absent", "absent", Num(5), "absent", Absent, "absent")

DirectScenes == { EmptyScene, SceneOddNear, SceneFlagged, SceneCloseReading }

AnalyzeContextDirect ==
    /\ turns < MaxTurns
    /\ AnalyzeContextOver(DirectTexts, DirectScenes, { 0 }, { 0 }, BOOLEAN)

NextDirect ==
    \/ AnalyzeContextDirect
    \/ SupplyContext
    \/ AnalyzeEmotion
    \/ SupplyEmotion
    \/ MakeDecision
    \/ Respond

\* the command history of the DecisionMaker the caller uses: a fresh one, and
\* one that has executed "guolai" in its last two requests
DirectHistories == { << >>, << "guolai", "guolai" >> }

InitDirect ==
    /\ config \in Configs
    /\ current_emotion = "pingjing"
    /\ emotion_history = << >>
    /\ command_history \in DirectHistories
    /\ pc = "idle"
    /\ context = DefaultContext(<< >>)
    /\ emotion = NoEmotion
    /\ command_results = << >>
    /\ decision = NoDecision
    /\ prev_emotion = "pingjing"
    /\ prev_commands = command_history
    /\ emotion_raised = FALSE
    /\ turns = 0
    /\ decided_log = command_history
    /\ streak = [ NoStreak EXCEPT !.ok = command_history = << >> ]
    /\ returned = {}
    /\ race = NoRace
    /\ retry = NoRetry

SpecDirect == InitDirect /\ [][NextDirect]_vars

\* SpecRace: two threads call make_decision on one DecisionMaker, each with
\* one command that needs no safety check and a mood that does not block.
\* Nothing in DecisionMaker serializes the calls, so the threads interleave
\* between the statements of _process_command and _update_command_history
\* that read and write command_history: the count over the last entries, the
\* append, and the length test with its pop.
RaceCommands == { "zhuanshen", "tiaowu" }

\* a history that sequential requests build from an empty one
SequentiallyBuilt(h) ==
    \A i \in DOMAIN h : _check_command_history(SubSeq(h, 1, i - 1), h[i])

RaceHistories ==
    { h \in { << >>,
              << "zhuanshen" >>,
              << "zhuanshen", "tiaowu" >>,
              << "tiaowu", "tiaowu", "zhuanshen" >>,
              << "zhuanshen", "zhuanshen", "tiaowu", "tiaowu", "zhuanshen",
                 "zhuanshen", "tiaowu", "tiaowu", "zhuanshen" >>,
              << "zhuanshen", "zhuanshen", "tiaowu", "tiaowu", "zhuanshen",
                 "zhuanshen", "tiaowu", "tiaowu", "zhuanshen", "zhuanshen" >> } :
          SequentiallyBuilt(h) /\ Len(h) <= max_history_size }

InitRace ==
    /\ config = CfgFull
    /\ current_emotion = "pingjing"
    /\ emotion_history = << >>
    /\ command_history \in RaceHistories
    /\ pc = "idle"
    /\ context = DefaultContext(<< >>)
    /\ emotion = NoEmotion
    /\ command_results = << >>
    /\ decision = NoDecision
    /\ prev_emotion = "pingjing"
    /\ prev_commands = << >>
    /\ emotion_raised = FALSE
    /\ turns = 0
    /\ decided_log = << >>
    /\ streak = NoStreak
    /\ returned = {}
    /\ retry = NoRetry
    /\ \E commands \in [ Callers -> RaceCommands ] :
           race = [ start |-> command_history,
                    calls |-> [ t \in Callers |->
                                  [ command |-> commands[t], at |-> "ready",
                                    passed |-> FALSE ] ] ]

\* _process_command step 3: the count over the last three entries
CheckHistory(t) ==
    /\ race.calls[t].at = "ready"
    /\ LET passed == _check_command_history(command_history, race.calls[t].command)
       IN  race' = [ race EXCEPT !.calls[t].passed = passed,
                                 !.calls[t].at = IF passed THEN "checked" ELSE "done" ]
    /\ UNCHANGED << config, current_emotion, emotion_history, command_history, pc,
                    context, emotion, command_results, decision, prev_emotion,
                    prev_commands, emotion_raised, turns, decided_log, streak, returned,
                    retry >>

\* _update_command_history: the append
AppendHistory(t) ==
    /\ race.calls[t].at = "checked"
    /\ command_history' = Append(command_history, race.calls[t].command)
    /\ race' = [ race EXCEPT !.calls[t].at = "appended" ]
    /\ UNCHANGED << config, current_emotion, emotion_history, pc,
                    context, emotion, command_results, decision, prev_emotion,
                    prev_commands, emotion_raised, turns, decided_log, streak, returned,
                    retry >>

\* _update_command_history: the length test and the pop
EvictHistory(t) ==
    /\ race.calls[t].at = "appended"
    /\ command_history' = IF Len(command_history) > max_history_size
                          THEN Tail(command_history) ELSE command_history
    /\ race' = [ race EXCEPT !.calls[t].at = "done" ]
    /\ UNCHANGED << config, current_emotion, emotion_history, pc,
                    context, emotion, command_results, decision, prev_emotion,
                    prev_commands, emotion_raised, turns, decided_log, streak, returned,
                    retry >>

NextRace == \E t \in Callers : CheckHistory(t) \/ AppendHistory(t) \/ EvictHistory(t)

SpecRace == InitRace /\ [][NextRace]_vars

\* SpecRetry: one call of OllamaService._retry_request.  The call is a
\* coroutine; its steps are the awaits of the source: initialize(), one POST
\* per pass of the loop, and the sleep after a failed pass.
MaxRetries == 4

DefaultMaxRetries == 3

\* what one POST to /generate can end in: a 200 response with a JSON body,
\* another status, aiohttp.ClientError, asyncio.TimeoutError (the request
\* has a total timeout of 30 s)
PostOutcomes == { "ok", "http_error", "client_error", "timeout" }

Retried == { "client_error", "timeout" }

\* the condition under which the except branch sleeps
SleepAlways(attempt, max_retries) == TRUE

ShouldSleep(attempt, max_retries) == attempt < max_retries - 1

\* asyncio.sleep(1 * (attempt + 1))
SleepSeconds(attempt) == 1 * (attempt + 1)

InitRetry ==
    /\ config = CfgFull
    /\ current_emotion = "pingjing"
    /\ emotion_history = << >>
    /\ command_history = << >>
    /\ pc = "idle"
    /\ context = DefaultContext(<< >>)
    /\ emotion = NoEmotion
    /\ command_results = << >>
    /\ decision = NoDecision
    /\ prev_emotion = "pingjing"
    /\ prev_commands = << >>
    /\ emotion_raised = FALSE
    /\ turns = 0
    /\ decided_log = << >>
    /\ streak = NoStreak
    /\ returned = {}
    /\ race = NoRace
    /\ \E m \in 0 .. MaxRetries, i \in BOOLEAN :
           retry = [ NoRetry EXCEPT !.at = "called", !.max_retries = m,
                                    !.initialized = i ]

RetryUnchanged ==
    UNCHANGED << config, current_emotion, emotion_history, command_history, pc,
                 context, emotion, command_results, decision, prev_emotion,
                 prev_commands, emotion_raised, turns, decided_log, streak,
                 returned, race >>

\* if not self._initialized: await self.initialize(); _check_service raises
\* OllamaServiceError when the service or the model is not there
RetryInitialize ==
    /\ retry.at = "called"
    /\ IF retry.initialized
       THEN retry' = [ retry EXCEPT !.at = "loop" ]
       ELSE \E available \in BOOLEAN :
                retry' = IF available
                         THEN [ retry EXCEPT !.at = "loop", !.initialized = TRUE ]
                         ELSE [ retry EXCEPT !.at = "raised",
                                             !.error = "service_unavailable" ]
    /\ RetryUnchanged

\* one pass of `for attempt in range(max_retries)`: the POST and what the
\* try / except makes of its outcome
RetryPost ==
    /\ retry.at = "loop"
    /\ retry.attempt < retry.max_retries
    /\ \E outcome \in PostOutcomes :
           LET posted == [ retry EXCEPT !.outcomes = Append(@, outcome) ]
           IN  retry' =
                   IF outcome = "ok" THEN [ posted EXCEPT !.at = "returned" ]
                   ELSE IF outcome = "http_error"
                   THEN [ posted EXCEPT !.at = "raised", !.error = "http_status" ]
                   ELSE IF ShouldSleep(retry.attempt, retry.max_retries)
                   THEN [ posted EXCEPT !.at = "sleeping" ]
                   ELSE [ posted EXCEPT !.attempt = @ + 1 ]
    /\ RetryUnchanged

\* await asyncio.sleep(1 * (attempt + 1)), then continue
RetrySleep ==
    /\ retry.at = "sleeping"
    /\ retry' = [ retry EXCEPT !.sleeps = Append(@, SleepSeconds(retry.attempt)),
                               !.attempt = @ + 1,
                               !.at = "loop" ]
    /\ RetryUnchanged

\* the raise after the loop
RetryExhausted ==
    /\ retry.at = "loop"
    /\ retry.attempt >= retry.max_retries
    /\ retry' = [ retry EXCEPT !.at = "raised", !.error = "retries_exhausted" ]
    /\ RetryUnchanged

NextRetry == RetryInitialize \/ RetryPost \/ RetrySleep \/ RetryExhausted

\* the event loop resumes a coroutine whose await has completed, and every
\* await of the call completes: the requests carry a timeout, the sleep is
\* finite
SpecRetry == InitRetry /\ [][NextRetry]_vars /\ WF_vars(NextRetry)

-----------------------------------------------------------------------------
(* Properties *)

Decided == pc = "decided"

\* the danger keywords the configuration file lists
ConfiguredDangerKeywords ==
    IF config.loaded /\ "danger_keywords" \in config.keys
    THEN config.danger_keywords ELSE {}

HasDangerKeyword(ctx) ==
    \E w \in ConfiguredDangerKeywords : InText(w, ctx.original_text)

IsRejection(d) == ~d.should_execute /\ d.action_type = "none"

\* C1 as claimed: a command request whose text holds a configured danger
\* keyword is rejected, whatever the scene and whatever commands matched.
C1_DangerKeywordAlwaysRejected ==
    (Decided /\ IsCommandRequest(context) /\ HasDangerKeyword(context))
        => IsRejection(decision)

\* C1, amended: a command request whose text holds a configured danger
\* keyword is rejected when every matched command requires a safety check
\* (the safety gate, and with it the danger keyword test, is skipped for a
\* command configured with safety_check False).
C1_DangerKeywordRejectsCheckedCommands ==
    (/\ Decided
     /\ IsCommandRequest(context)
     /\ HasDangerKeyword(context)
     /\ \A c \in Range(context.possible_commands) : needs_safety_check(c))
        => IsRejection(decision)

\* a safety-checked command with a danger keyword in the text, in a scene
\* that is otherwise safe, was rejected for the danger word
C1_Witness ==
    /\ Decided
    /\ IsCommandRequest(context)
    /\ HasDangerKeyword(context)
    /\ \A c \in Range(context.possible_commands) : needs_safety_check(c)
    /\ context.is_safe
    /\ decision.reject_reason = "danger_words"

\* the result make_decision computed for each candidate that requires a
\* safety check
CheckedResults ==
    { i \in DOMAIN command_results : needs_safety_check(command_results[i].command) }

NotExecuted(i) ==
    /\ ~command_results[i].should_execute
    /\ Count(command_history, command_results[i].command)
           = Count(prev_commands, command_results[i].command)

MinDistanceConfigured == config.loaded /\ "min_obstacle_distance" \in config.keys

\* the scene lists an obstacle nearer than the configured minimum
HasNearObstacle(scene) ==
    /\ scene.obstacles_key
    /\ \E i \in DOMAIN scene.obstacles :
           /\ scene.obstacles[i].k = "num"
           /\ scene.obstacles[i].v < config.min_obstacle_distance

\* C2: with an obstacle nearer than min_obstacle_distance in the scene, every
\* safety-checked command of the request is rejected and is not appended to
\* the command history.
C2_NearObstacleRejects ==
    (Decided /\ MinDistanceConfigured /\ HasNearObstacle(context.scene))
        => \A i \in CheckedResults : NotExecuted(i)

\* ContextAnalyzer._check_safety cannot evaluate the obstacles it was given
SceneCheckUnevaluable(ctx) ==
    /\ ctx.scene.obstacles_key
    /\ ctx.scene.obstacles # << >>
    /\ ctx.possible_commands # << >>
    /\ \/ ~MinDistanceConfigured
       \/ \E i \in DOMAIN ctx.scene.obstacles : ctx.scene.obstacles[i].k = "str"

\* DecisionMaker cannot evaluate the speed limit or the required checks
CommandCheckUnevaluable(ctx) ==
    \/ ctx.scene.speed.k = "str"
    \/ ctx.scene.speed.k = "num" /\ ~(DecisionConfigLoaded(config) /\ "max_speed" \in config.keys)
    \/ ScoreRaises(config)
    \/ \E i \in DOMAIN config.required_checks :
           \/ config.required_checks[i] = "distance" /\ ~MinDistanceConfigured
           \/ config.required_checks[i] = "distance" /\ ctx.scene.obstacle_distance.k = "str"
           \/ config.required_checks[i] = "speed" /\ "max_speed" \notin config.keys

\* C3: a safety check that cannot be evaluated rejects every safety-checked
\* command of the request (the safety gates fail closed).
C3_SafetyFailsClosed ==
    (Decided /\ (SceneCheckUnevaluable(context) \/ CommandCheckUnevaluable(context)))
        => \A i \in CheckedResults : NotExecuted(i)

\* C4: a command that passes the safety gate while the emotion of the request
\* is SCARED or ANGRY (EmotionType) is rejected and the command history is
\* left as it was.
C4_ScaredOrAngryRejects ==
    (Decided /\ emotion.emotion_type \in { "haipa", "fennu" })
        => /\ \A i \in DOMAIN command_results :
                  _check_command_safety(config, command_results[i].command, context).is_safe
                      => ~command_results[i].should_execute
           /\ command_history = prev_commands

\* the commands decided on the turns before the one just decided
EarlierTurns == SubSeq(decided_log, 1, Len(decided_log) - 1)

\* C5: a command that was the decided command on 2 of the last 3 turns is
\* not executed when the next request attempts it, also when requests carry
\* several candidate commands.
C5_RepetitionLaw ==
    (Decided /\ decided_log # << >>)
        => \A i \in DOMAIN command_results :
               Count(EarlierTurns, command_results[i].command) >= RepeatLimit
                   => ~command_results[i].should_execute

\* C6: from an empty history, three consecutive requests for the same single
\* command, with the safety gate passing and a mood that does not block, are
\* executed, executed, and rejected as too frequent, leaving two entries of
\* the command in the history.
C6_ThirdRepeatRejected ==
    (Decided /\ streak.ok /\ streak.n >= 1)
        => IF streak.n < RecentWindow
           THEN /\ decision.should_execute
                /\ decision.command = streak.command
                /\ decision.action_type = get_command_params(streak.command).action
           ELSE /\ ~decision.should_execute
                /\ decision.reject_reason = "too_frequent"
                /\ command_history = << streak.command, streak.command >>

\* the third request in a row for a safety-checked command was rejected
C6_Witness ==
    /\ Decided
    /\ streak.ok
    /\ streak.n = RecentWindow
    /\ needs_safety_check(streak.command)
    /\ decision.reject_reason = "too_frequent"

\* C7: neither history ever exceeds its capacity.
C7_HistoriesBounded ==
    /\ Len(emotion_history) <= history_size
    /\ Len(command_history) <= max_history_size

\* both histories were full and the request appended to both
C7_Witness ==
    /\ Decided
    /\ Len(prev_commands) = max_history_size
    /\ command_history # prev_commands
    /\ Len(emotion.history) = history_size
    /\ turns > history_size

\* C8: the confidence of every context lies in [0, 1].
C8_ContextConfidenceBounded ==
    (pc # "idle")
        => (0 <= context.context_confidence /\ context.context_confidence <= CtxOne)

ScoreInRange(x) == 0 <= x /\ x <= SafetyOne

\* C9: every safety assessment and every decision that carries a safety score
\* has it in [0, 1].
C9_SafetyScoreBounded ==
    (pc \in { "felt", "decided" })
        => /\ \A c \in Range(context.possible_commands) :
                  ScoreInRange(_check_command_safety(config, c, context).score)
           /\ \A i \in DOMAIN command_results :
                  command_results[i].has_score
                      => ScoreInRange(command_results[i].safety_score)
           /\ decision.has_score => ScoreInRange(decision.safety_score)

\* a command was executed with some but not all of several required checks
\* passing
C9_Witness ==
    /\ Decided
    /\ decision.should_execute
    /\ decision.has_score
    /\ 0 < decision.safety_score
    /\ decision.safety_score < SafetyOne

\* C10: when EmotionAnalyzer.analyze raises, the emotion_type it returns is
\* the current emotion from before the call, with the default parameters and
\* confidence 0.5.
C10_FallbackKeepsPreviousEmotion ==
    (pc = "felt" /\ emotion_raised)
        => /\ emotion.emotion_type = prev_emotion
           /\ emotion.params = get_emotion_params("pingjing")
           /\ emotion.confidence = ConfOne \div 2

\* C11: a call of EmotionAnalyzer.analyze that raises leaves current_emotion
\* and emotion_history as they were before the call.
C11_FallbackLeavesStateUntouched ==
    [][(AnalyzeEmotion /\ emotion_raised')
           => UNCHANGED << current_emotion, emotion_history >>]_vars

\* C12: current_emotion, emotion_history and command_history change only in
\* the make_decision step that returns an executable command; a request left
\* after either analyze call, or decided as a rejection or as conversation,
\* leaves the three as they were.
C12_StateChangesOnlyAtCommit ==
    [][(<< current_emotion, emotion_history, command_history >>'
            # << current_emotion, emotion_history, command_history >>)
           => (MakeDecision /\ decision'.should_execute
                            /\ decision'.action_type # "none")]_vars

\* C13: every element of emotion_history is an emotion type that an earlier
\* call of EmotionAnalyzer.analyze returned.
C13_HistoryHoldsReturnedEmotions ==
    \A i \in DOMAIN emotion_history : emotion_history[i] \in returned

InRange(x, range) ==
    /\ range[1] * (ParamOne \div 10) <= x
    /\ x <= range[2] * (ParamOne \div 10)

\* C14: speech_speed, volume and pitch of every result of
\* EmotionAnalyzer.analyze lie inside speech_speed_range, volume_range and
\* pitch_range, also when the configuration could not be loaded.
C14_ParamsWithinConfiguredRanges ==
    (pc \in { "felt", "decided" })
        => /\ InRange(emotion.params.speech_speed, config.speech_speed_range)
           /\ InRange(emotion.params.volume, config.volume_range)
           /\ InRange(emotion.params.pitch, config.pitch_range)

ContextTypes == { "command", "question", "greeting", "chat" }

RejectReasons ==
    { "env_unsafe", "danger_words", "obstacle", "restricted_area", "speed_limit",
      "cannot_check", "bad_mood", "too_frequent", "cannot_process", "no_command",
      "cannot_decide" }

\* a decision the caller can read: a rejection with its reason, an action of
\* the command table, or conversation
DefinedDecision(d) ==
    IF ~d.should_execute
    THEN d.action_type = "none" /\ d.reject_reason \in RejectReasons
    ELSE \/ d.action_type = "none" /\ ~d.has_score
         \/ \E c \in Commands : d.action_type = get_command_params(c).action

\* C15: ContextAnalyzer.analyze, EmotionAnalyzer.analyze and
\* DecisionMaker.make_decision each return a defined result for every
\* argument: missing configuration, malformed scene fields, unknown command
\* ids, arguments that are no dict.
C15_OperationsAreTotal ==
    /\ pc = "analyzed"
           => /\ context.is_dict
              /\ context.context_type \in ContextTypes
              /\ context.is_safe \in BOOLEAN
    /\ pc = "felt"
           => /\ emotion.emotion_type \in Emotions
              /\ emotion.confidence \in 0 .. ConfOne
              /\ emotion.history = emotion_history
    /\ pc = "decided" => DefinedDecision(decision)

\* make_decision was handed None in place of the context and answered that it
\* cannot decide
C15_Witness ==
    /\ Decided
    /\ ~context.is_dict
    /\ decision.reject_reason = "cannot_decide"

\* a scene without obstacles, restricted area or excess speed
QuietScene(ctx) ==
    /\ ctx.is_safe
    /\ ctx.scene.obstacles = << >>
    /\ ctx.scene.has_obstacles # "true"
    /\ ctx.scene.area \notin config.restricted_areas
    /\ ctx.scene.obstacle_distance.k = "absent"
    /\ \/ ctx.scene.speed.k = "absent"
       \/ ctx.scene.speed.k = "num" /\ ctx.scene.speed.v <= config.max_speed

\* the request of the scenario: "guolai" alone, a quiet scene, no danger
\* keyword, a calm emotion, an empty command history
ComeHereRequest ==
    /\ Decided
    /\ context.is_dict
    /\ context.context_type = "command"
    /\ context.possible_commands = << "guolai" >>
    /\ QuietScene(context)
    /\ ~HasDangerKeyword(context)
    /\ emotion.emotion_type = "pingjing"
    /\ prev_commands = << >>

ExecutedAsMoveToTarget(d) ==
    /\ d.should_execute
    /\ d.action_type = "move_to_target"
    /\ d.safety_score = SafetyOne

\* DecisionMaker loaded its configuration, and the configuration lists
\* required checks and holds the threshold of each check it lists
ChecksConfigured ==
    /\ ~ScoreRaises(config)
    /\ "distance" \in Range(config.required_checks)
           => "min_obstacle_distance" \in config.keys
    /\ "speed" \in Range(config.required_checks) => "max_speed" \in config.keys

\* C17 as claimed: the request of the scenario is executed as move_to_target
\* with safety score 1.0.
C17_ComeHereExecutes ==
    ComeHereRequest => ExecutedAsMoveToTarget(decision)

\* C17, amended: the request of the scenario is executed as move_to_target
\* with safety score 1.0 when DecisionMaker loaded a configuration whose
\* required_checks list is not empty and whose listed checks have their
\* thresholds.
C17_ComeHereExecutesWhenConfigured ==
    (ComeHereRequest /\ ChecksConfigured) => ExecutedAsMoveToTarget(decision)

\* the scenario under a configuration with the four required checks
C17_Witness ==
    /\ ComeHereRequest
    /\ Len(config.required_checks) = 4
    /\ ExecutedAsMoveToTarget(decision)

\* C18: a safety-checked command rejected in a scene with an obstacle nearer
\* than min_obstacle_distance carries the obstacle reason.
C18_NearObstacleReasonNamesObstacle ==
    (Decided /\ MinDistanceConfigured /\ HasNearObstacle(context.scene))
        => \A i \in CheckedResults :
               ~command_results[i].should_execute
                   => command_results[i].reject_reason = "obstacle"

\* C19: every safety-checked command is rejected when the scene lists an
\* obstacle, also when every obstacle is at or beyond min_obstacle_distance.
C19_AnyObstacleRejects ==
    (Decided /\ context.has_scene /\ context.scene.obstacles_key
             /\ context.scene.obstacles # << >>)
        => \A i \in CheckedResults : ~command_results[i].should_execute

\* the scores _analyze_context_type computed for the context
ScoresOf(ctx) ==
    type_scores(ctx.original_text, ctx.verbs, ctx.particles, ctx.keywords,
                ctx.possible_commands)

\* the context is the result of the try branch of ContextAnalyzer.analyze
Tokenized(ctx) == ctx # DefaultContext(ctx.original_text)

\* C20: the context type is a category with the maximal score, the
\* confidence is that score, and among categories that tie for the maximum
\* the first of command, question, greeting, chat wins.
C20_MaxScoreWinsByPriority ==
    (pc = "analyzed" /\ Tokenized(context))
        => LET scores == ScoresOf(context) IN
           \E i \in DOMAIN scores :
               /\ scores[i].type = context.context_type
               /\ scores[i].score = context.context_confidence
               /\ \A j \in DOMAIN scores : scores[j].score <= scores[i].score
               /\ \A j \in DOMAIN scores : scores[j].score = scores[i].score => i <= j

\* command and greeting tied for the maximum and command won
C20_Witness ==
    /\ pc = "analyzed"
    /\ Tokenized(context)
    /\ ScoresOf(context)[1].score = ScoresOf(context)[3].score
    /\ ScoresOf(context)[1].score > ScoresOf(context)[2].score
    /\ ScoresOf(context)[1].score > ScoresOf(context)[4].score
    /\ context.context_type = "command"

\* C16: the repetition check and the append with its eviction of one call
\* are atomic for the other call: two concurrent calls for the same command
\* do not both pass the check when one after the other the second would be
\* rejected, and no call finds the history above its capacity.
C16_HistoryAccessIsAtomic ==
    /\ \A t, u \in Callers :
           (/\ t # u
            /\ race.calls[t].at = "done" /\ race.calls[u].at = "done"
            /\ race.calls[t].passed /\ race.calls[u].passed
            /\ race.calls[t].command = race.calls[u].command)
               => _check_command_history(
                      _update_command_history(race.start, race.calls[t].command),
                      race.calls[u].command)
    /\ (\E t \in Callers : race.calls[t].at = "ready")
           => Len(command_history) <= max_history_size

\* C21: make_decision evaluates the candidate commands only for a context
\* of type "command" with at least one candidate, one result per candidate
\* in order; for every other context it answers conversationally
\* (should_execute, no action, no reject reason), evaluates nothing and
\* leaves the command history as it was.
C21_RoutesByTypeAndCandidates ==
    (Decided /\ context.is_dict) =>
        IF context.context_type = "command" /\ context.possible_commands # << >>
        THEN /\ Len(command_results) = Len(context.possible_commands)
             /\ \A i \in DOMAIN command_results :
                    command_results[i].command = context.possible_commands[i]
        ELSE /\ decision.should_execute
             /\ decision.action_type = "none"
             /\ decision.reject_reason = "none"
             /\ command_results = << >>
             /\ command_history = prev_commands

\* a context typed "command" without any candidate was answered
\* conversationally
C21_Witness ==
    /\ Decided
    /\ context.is_dict
    /\ context.context_type = "command"
    /\ context.possible_commands = << >>
    /\ decision.should_execute
    /\ decision.action_type = "none"
    /\ command_history = prev_commands

\* the candidates of the request that came out executable
ExecutableResults == { i \in DOMAIN command_results : command_results[i].should_execute }

\* C22: over the per-candidate results, the decision is the earliest
\* executable result with the maximal safety score among the executable
\* ones, and the first candidate's result when none is executable.
C22_BestIsEarliestTopExecutable ==
    (Decided /\ command_results # << >>) =>
        IF ExecutableResults # {}
        THEN \E i \in ExecutableResults :
                 /\ decision = command_results[i]
                 /\ \A j \in ExecutableResults :
                        command_results[j].safety_score <= command_results[i].safety_score
                 /\ \A j \in ExecutableResults :
                        j < i => command_results[j].safety_score
                                     < command_results[i].safety_score
        ELSE decision = command_results[1]

\* two executable candidates, the second with the higher safety score, and
\* the second was returned
C22_Witness ==
    /\ Decided
    /\ Len(command_results) = 2
    /\ ExecutableResults = { 1, 2 }
    /\ command_results[1].safety_score < command_results[2].safety_score
    /\ decision = command_results[2]

\* the call of EmotionAnalyzer.analyze got as far as _recognize_emotion's
\* selection
Recognized == ~(RecognizeRaises(config) \/ ContextRaises(context))

\* C23: _recognize_emotion selects the first keyword-matched candidate of
\* the context when there is one, whatever the scores, and otherwise an
\* emotion whose combined score is maximal; in both cases the confidence is
\* the maximal score over (number of emotions scored x 4), clamped to [0, 1].
C23_SelectionAndConfidence ==
    [][ (pc \in { "analyzed", "handed" } /\ pc' = "felt" /\ Recognized) =>
            LET scores == emotion_scores(config, context, emotion_history)
                top    == MaxScore(scores)
                ratio  == (top * ConfOne) \div (Cardinality(Emotions) * 4 * ScoreOne)
            IN  /\ IF context.possible_emotions # << >>
                   THEN current_emotion' = context.possible_emotions[1]
                   ELSE /\ current_emotion' \in Emotions
                        /\ scores[current_emotion'] = top
                /\ ~emotion_raised' =>
                       /\ emotion'.emotion_type = current_emotion'
                       /\ emotion'.confidence
                              = (IF ratio > ConfOne THEN ConfOne
                                 ELSE IF ratio < 0 THEN 0 ELSE ratio) ]_vars

\* on the first request of a session the keyword-matched candidate was
\* selected although another emotion scored higher
C23_Witness ==
    /\ pc = "felt"
    /\ Recognized
    /\ ~emotion_raised
    /\ emotion_history = << current_emotion >>
    /\ context.possible_emotions # << >>
    /\ current_emotion = context.possible_emotions[1]
    /\ LET scores == emotion_scores(config, context, << >>)
       IN  scores[current_emotion] < MaxScore(scores)

\* C24: when EmotionAnalyzer scores a context of ContextAnalyzer whose
\* is_safe is false, the scene score of SCARED holds 0.8 and that of
\* SURPRISED 0.6, and when the context's has_obstacles is true the scene
\* score of SCARED holds 0.4 (1.2 with both).
C24_ContextFlagsBiasScene ==
    (pc = "felt" /\ Recognized) =>
        LET scared    == _calculate_scene_scores(context.scene, "haipa")
            surprised == _calculate_scene_scores(context.scene, "jingya")
        IN  /\ ~context.is_safe =>
                   scared >= (8 * ScoreOne) \div 10 /\ surprised = (6 * ScoreOne) \div 10
            /\ context.has_obstacles => scared >= (4 * ScoreOne) \div 10
            /\ (~context.is_safe /\ context.has_obstacles) =>
                   scared = (12 * ScoreOne) \div 10

\* the commands _update_command_history was called with, in call order
RECURSIVE ExecutedCommands(_)
ExecutedCommands(results) ==
    IF results = << >> THEN << >>
    ELSE (IF Head(results).should_execute THEN << Head(results).command >> ELSE << >>)
             \o ExecutedCommands(Tail(results))

\* C25: a call of _update_emotion_state leaves in emotion_history the last
\* history_size entries of the history before it followed by the emotion
\* passed, and the calls of _update_command_history of one make_decision
\* leave in command_history the last max_history_size entries of the
\* history before it followed by the commands passed, in call order: the
\* newest entries stay and only the oldest leave.
C25_FifoEviction ==
    [][ /\ (pc \in { "analyzed", "handed" } /\ pc' = "felt" /\ Recognized) =>
               emotion_history'
                   = LastN(Append(emotion_history, current_emotion'), history_size)
        /\ (pc \in { "felt", "given" } /\ pc' = "decided") =>
               command_history'
                   = LastN(command_history \o ExecutedCommands(command_results'),
                           max_history_size) ]_vars

\* the sixth recognition of a session: emotion_history is full, its newest
\* entry is the emotion just selected, and the first selection has left
C25_Witness ==
    /\ pc = "felt"
    /\ Recognized
    /\ turns = history_size
    /\ Len(emotion_history) = history_size
    /\ emotion_history[history_size] = current_emotion
    /\ emotion_history[1] # current_emotion

\* C26: one make_decision call appends at most one entry to the command
\* history, and an Executable decision's entry is the command whose action
\* is returned; evaluated candidates that were not selected leave no entry.
C26_AtMostOneEntryPerDecision ==
    Decided =>
        \/ command_history = prev_commands
        \/ /\ decision.should_execute
           /\ decision.command \in Commands
           /\ command_history = _update_command_history(prev_commands, decision.command)

\* C27: a make_decision call that returns a rejection leaves the command
\* history as it was before the call, whichever gate rejected (safety, mood,
\* repetition) and also when the call or a candidate's evaluation raised.
C27_RejectionLeavesHistory ==
    (Decided /\ ~decision.should_execute) => command_history = prev_commands

\* a request rejected by the repetition gate found the history it was
\* counted against unchanged
C27_Witness ==
    /\ Decided
    /\ decision.reject_reason = "too_frequent"
    /\ prev_commands = << "guolai", "guolai" >>
    /\ command_history = prev_commands

\* the state of command_history in which the repetition gate rejects
\* command c: at least RepeatLimit of its last RecentWindow entries are c
Throttled(history, c) ==
    Cardinality({ i \in DOMAIN history :
                      i > Len(history) - RecentWindow /\ history[i] = c }) >= RepeatLimit

\* the make_decision step of the request in flight
DecisionStep == pc \in { "felt", "given" } /\ pc' = "decided"

\* candidate i of the decision step is evaluated before any command of the
\* same call is committed
BeforeAnyCommit(i) ==
    \A j \in DOMAIN command_results' : j < i => ~command_results'[j].should_execute

\* C28: a command is rejected by the repetition gate exactly in a throttled
\* history; every request for a throttled command is rejected; and a step
\* that commits no command (a conversational turn, a rejected attempt, the
\* analysis and the hand-over of a request) leaves the command throttled:
\* once throttled, a command stays rejected until another command is
\* committed, with no decay by time or by turns.
C28_ThrottlePersists ==
    [][ \A c \in Commands :
          /\ DecisionStep =>
                 \A i \in DOMAIN command_results' :
                     (command_results'[i].command = c /\ BeforeAnyCommit(i)) =>
                         /\ command_results'[i].reject_reason = "too_frequent"
                                => Throttled(command_history, c)
                         /\ Throttled(command_history, c)
                                => ~command_results'[i].should_execute
          /\ (/\ Throttled(command_history, c)
              /\ \A i \in DOMAIN command_results' : ~command_results'[i].should_execute)
                 => Throttled(command_history', c) ]_vars

\* a command executed twice was not committed in the turn after, and the
\* request for it in the turn after that was rejected by the repetition gate
C28_Witness ==
    /\ Decided
    /\ decision.reject_reason = "too_frequent"
    /\ decision.command \in Commands
    /\ decided_log = << decision.command, decision.command, "none", "none" >>
    /\ Throttled(command_history, decision.command)

\* C29: an Executable decision for a command that requires a safety check
\* has every check of the configured required_checks passing on the scene
\* and the safety score 1.0: no such command is executed with a failing
\* required check.
C29_ExecutedPassesEveryCheck ==
    (/\ Decided
     /\ decision.should_execute
     /\ decision.command \in Commands
     /\ needs_safety_check(decision.command))
        => /\ decision.safety_score = SafetyOne
           /\ \A k \in DOMAIN config.required_checks :
                  _pass_safety_check(config, config.required_checks[k], context.scene)

\* the _retry_request call has returned a response or raised
RetryDone == retry.at \in { "returned", "raised" }

\* the POST attempts of the call so far
Posts == Len(retry.outcomes)

RetryBounded ==
    /\ Posts <= retry.max_retries
    /\ \A i \in DOMAIN retry.outcomes : i < Posts => retry.outcomes[i] \in Retried
    /\ retry.at = "returned" => Posts >= 1 /\ retry.outcomes[Posts] = "ok"
    /\ (/\ RetryDone
        /\ retry.error # "service_unavailable"
        /\ \A i \in DOMAIN retry.outcomes : retry.outcomes[i] \in Retried)
           => /\ retry.at = "raised"
              /\ retry.error = "retries_exhausted"
              /\ Posts = retry.max_retries
    /\ retry.at = "sleeping" => Posts < retry.max_retries
    /\ Len(retry.sleeps) <= Posts
    /\ RetryDone => Len(retry.sleeps) = (IF Posts = 0 THEN 0 ELSE Posts - 1)
    /\ \A i \in DOMAIN retry.sleeps : retry.sleeps[i] = i

\* C30: a _retry_request call makes at most max_retries POST attempts and
\* ends: it returns the response of the first attempt that succeeds and
\* attempts nothing after it, and when every attempt fails with a connection
\* error or a timeout it raises OllamaServiceError after exactly max_retries
\* attempts; it sleeps once after each failed attempt but the last, for one
\* second more each time.
C30_RetryTerminates == []RetryBounded /\ <>RetryDone

\* with the default of three retries every attempt failed with a connection
\* error or a timeout: three POSTs, sleeps of 1 s and 2 s between them, and
\* OllamaServiceError raised
C30_Witness ==
    /\ retry.at = "raised"
    /\ retry.error = "retries_exhausted"
    /\ retry.max_retries = DefaultMaxRetries
    /\ Posts = DefaultMaxRetries
    /\ \A i \in DOMAIN retry.outcomes : retry.outcomes[i] \in Retried
    /\ retry.sleeps = << 1, 2 >>

====
